---- MODULE Spec2Model ----
(***************************************************************************)
(* territory-python-scanner: the crawl of scan_repo, the ScanQueue, the    *)
(* offset resolver, the tree walk (write_tree / write_content / elision)   *)
(* and the token / node / search-index writers.                            *)
(*                                                                         *)
(* A Python str is a sequence of characters, each character a one-element  *)
(* string; bytes are the UTF-8 encoding of such a sequence.                *)
(***************************************************************************)
EXTENDS Integers, Sequences, FiniteSets, TLC

\* ------------------------------------------------------------------ bounds

\* statements per generated source file
MaxStmts == 2
\* ticks after which the SIGALRM of setup_timeout may fire during a walk
MaxTicks == 40
\* calls made on a free-standing ScanQueue
MaxCalls == 5
\* walks that the alarm interrupts in one run
MaxAlarms == 1
\* calls made on a free-standing offset resolver
MaxResolves == 2
\* the lines asked of the resolver are -MaxLine .. MaxLine
MaxLine == 4
\* calls made on a free-standing UimNodeWriter and UimSearchIndexWriter
MaxWrites == 5
\* nodes begun on a free-standing UimNodeWriter
MaxNodes == 1

\* ------------------------------------------------------------------- text

NL == "\n"
\* U+2026, the character of the ellipsis marker (3 bytes in UTF-8)
Ellipsis == "U+2026"
\* U+00E9, a two-byte character used in a comment
EAcute == "U+00E9"

NONE == "None"
\* None where a line number is expected (lines of a source are at least 1)
NoLine == 0
\* None where an href is expected
NoHref == [path |-> NONE, offset |-> 0]
\* None where a Location is expected
NoStart == [line |-> -1, column |-> -1, offset |-> -1]

\* str.count('\n')
count_nl(text) == Cardinality({i \in 1..Len(text) : text[i] = NL})

\* len(ch.encode('utf-8'))
char_bytes(ch) == IF ch = Ellipsis THEN 3 ELSE IF ch = EAcute THEN 2 ELSE 1

RECURSIVE Concat(_)
\* ''.join(parts), joining the two halves of the list
Concat(parts) ==
  IF parts = <<>> THEN <<>>
  ELSE IF Len(parts) = 1 THEN parts[1]
  ELSE Concat(SubSeq(parts, 1, Len(parts) \div 2))
         \o Concat(SubSeq(parts, Len(parts) \div 2 + 1, Len(parts)))

\* ------------------------------------------------------------ syntax tree
\* What the parser hands to the scanner (parso): leaves carry prefix, value,
\* line and column; composite nodes carry a type and children and expose the
\* start position of their first leaf.  A composite node has no prefix
\* attribute (getattr(tree, 'prefix', None) is None for it).

Leaf(cls, prefix, value) ==
  [k |-> "Leaf", type |-> cls, prefix |-> prefix, value |-> value,
   children |-> <<>>, line |-> 0, column |-> 0, pline |-> 0]

PNode(type, children) ==
  [k |-> "Node", type |-> type, prefix |-> <<>>, value |-> <<>>,
   children |-> children, line |-> 0, column |-> 0, pline |-> 0]

\* position after `text`, starting at (line, col)
AdvLine(line, text) == line + count_nl(text)
\* the column after `text`: the characters after its last newline
AdvCol(col, text) ==
  IF count_nl(text) = 0 THEN col + Len(text)
  ELSE Len(text) - (CHOOSE i \in 1..Len(text) :
                      text[i] = NL /\ \A j \in (i + 1)..Len(text) : text[j] # NL)

RECURSIVE Annotate(_, _, _)
RECURSIVE AnnotateSeq(_, _, _)
\* a leaf whose prefix starts at (line, col): its (line, column) is where its
\* value starts, pline the line where its prefix starts; with the position
\* after the leaf
AnnotateLeaf(tree, line, col) ==
  [ts |-> <<[tree EXCEPT !.line = AdvLine(line, tree.prefix),
                         !.column = AdvCol(col, tree.prefix),
                         !.pline = line]>>,
   line |-> AdvLine(line, tree.prefix \o tree.value),
   col |-> AdvCol(col, tree.prefix \o tree.value)]

\* a node whose positioned children are r.ts: it starts where its first leaf
\* does
AnnotateNode(tree, r) ==
  [ts |-> <<[tree EXCEPT !.children = r.ts,
                         !.line = r.ts[1].line,
                         !.column = r.ts[1].column,
                         !.pline = r.ts[1].pline]>>,
   line |-> r.line, col |-> r.col]

\* the positioned trees a, followed by the positioned trees b
AnnotateBoth(a, b) == [ts |-> a.ts \o b.ts, line |-> b.line, col |-> b.col]

\* the trees ts positioned after the positioned trees a
AnnotateAfter(a, ts) == AnnotateBoth(a, AnnotateSeq(ts, a.line, a.col))

\* The parser's positions of a tree that starts at (line, col): the
\* positioned tree (in a one-element list) and the position after it.
Annotate(tree, line, col) ==
  IF tree.k = "Leaf" THEN AnnotateLeaf(tree, line, col)
  ELSE AnnotateNode(tree, AnnotateSeq(tree.children, line, col))

\* the parser's positions of consecutive trees
AnnotateSeq(ts, line, col) ==
  CASE ts = <<>> -> [ts |-> <<>>, line |-> line, col |-> col]
    [] Len(ts) = 1 -> Annotate(ts[1], line, col)
    [] OTHER -> AnnotateAfter(AnnotateSeq(SubSeq(ts, 1, Len(ts) \div 2), line, col),
                              SubSeq(ts, Len(ts) \div 2 + 1, Len(ts)))

RECURSIVE get_code(_)
RECURSIVE get_code_seq(_)
\* NodeOrLeaf.get_code(): the exact source text of a subtree, prefixes included
get_code(tree) ==
  IF tree.k = "Leaf" THEN tree.prefix \o tree.value ELSE get_code_seq(tree.children)
get_code_seq(ts) == Concat([i \in 1..Len(ts) |-> get_code(ts[i])])

RECURSIVE get_first_leaf(_)
get_first_leaf(tree) ==
  IF tree.k = "Leaf" THEN tree ELSE get_first_leaf(tree.children[1])

\* isinstance(tree, ClassOrFunc): Class, Function and Lambda (a Function)
IsClassOrFunc(tree) ==
  tree.k = "Node" /\ tree.type \in {"funcdef", "classdef", "lambdef"}
\* isinstance(tree, PythonNode) and tree.type == 'decorated'
IsDecorated(tree) == tree.k = "Node" /\ tree.type = "decorated"
IsEndMarker(tree) == tree.k = "Leaf" /\ tree.type = "EndMarker"
\* isinstance(c, Operator) and c.value == ':'
IsColon(tree) == tree.k = "Leaf" /\ tree.type = "Operator" /\ tree.value = <<":">>

\* ---------------------------------------------------------- source files
\* Python sources, written with the parser's tree shapes.  Indentation is
\* one space per level.

T_def == <<"d", "e", "f">>
T_class == <<"c", "l", "a", "s", "s">>
T_lambda == <<"l", "a", "m", "b", "d", "a">>
T_if == <<"i", "f">>
T_async == <<"a", "s", "y", "n", "c">>
SP == <<" ">>

Kw(pre, v) == Leaf("Keyword", pre, v)
Op(pre, v) == Leaf("Operator", pre, <<v>>)
Nm(pre, v) == Leaf("Name", pre, <<v>>)
Newline == Leaf("Newline", <<>>, <<NL>>)

\* x
Simple(pre, name) == PNode("simple_stmt", <<Nm(pre, name), Newline>>)
\* lambda: 0
Lambda(pre) ==
  PNode("lambdef", <<Kw(pre, T_lambda), Op(<<>>, ":"), Leaf("Literal", SP, <<"0">>)>>)
\* y = lambda: 0
Assign(pre, name) ==
  PNode("simple_stmt",
        <<PNode("expr_stmt", <<Nm(pre, name), Op(SP, "="), Lambda(SP)>>), Newline>>)
\* a=lambda: 0
ParamLambda == PNode("param", <<Nm(<<>>, "a"), Op(<<>>, "="), Lambda(<<>>)>>)
Suite(body) == PNode("suite", <<Newline>> \o body)
\* def name(params): body
Def(pre, name, params, body) ==
  PNode("funcdef",
        <<Kw(pre, T_def), Nm(SP, name),
          PNode("parameters", <<Op(<<>>, "(")>> \o params \o <<Op(<<>>, ")")>>),
          Op(<<>>, ":"), Suite(body)>>)
\* class name: body
Class(pre, name, body) ==
  PNode("classdef", <<Kw(pre, T_class), Nm(SP, name), Op(<<>>, ":"), Suite(body)>>)
\* if c: body
If(pre, body) ==
  PNode("if_stmt", <<Kw(pre, T_if), Nm(SP, "c"), Op(<<>>, ":"), Suite(body)>>)
\* @d
Decorator(pre) == PNode("decorator", <<Op(pre, "@"), Nm(<<>>, "d"), Newline>>)
\* @d(lambda: 0)
DecoratorLambda(pre) ==
  PNode("decorator",
        <<Op(pre, "@"), Nm(<<>>, "d"), Op(<<>>, "("), Lambda(<<>>), Op(<<>>, ")"),
          Newline>>)
Decorated(decs, df) ==
  PNode("decorated",
        <<IF Len(decs) = 1 THEN decs[1] ELSE PNode("decorators", decs), df>>)
\* async def ...
AsyncFuncdef(pre, df) == PNode("async_funcdef", <<Kw(pre, T_async), df>>)

Body1 == <<Simple(SP, "x")>>
Body2 == <<Simple(<<" ", " ">>, "x")>>

\* The statements a generated file is made of, at indentation 0.
TopStmts ==
  { \* x
    Simple(<<>>, "x"),
    \* #<e-acute> / y      (a comment line in the prefix)
    Simple(<<"#", EAcute, NL>>, "y"),
    \* y = lambda: 0
    Assign(<<>>, "y"),
    \* (blank line) / def f(): / x
    Def(<<NL>>, "f", <<>>, Body1),
    \* class A: / def m(): / x / y
    Class(<<>>, "A", <<Def(SP, "m", <<>>, Body2), Simple(SP, "y")>>),
    \* if c: / def g(): / x / (blank line) / y
    If(<<>>, <<Def(SP, "g", <<>>, Body2), Simple(<<NL, " ">>, "y")>>),
    \* def f(a=lambda: 0): / x
    Def(<<>>, "f", <<ParamLambda>>, Body1),
    \* @d / def f(): / x
    Decorated(<<Decorator(<<>>)>>, Def(<<>>, "f", <<>>, Body1)),
    \* (blank line) / @d / @d / def f(): / x
    Decorated(<<Decorator(<<NL>>), Decorator(<<>>)>>, Def(<<>>, "f", <<>>, Body1)),
    \* @d(lambda: 0) / def f(): / x
    Decorated(<<DecoratorLambda(<<>>)>>, Def(<<>>, "f", <<>>, Body1)),
    \* @d / async def f(): / x
    Decorated(<<Decorator(<<>>)>>, AsyncFuncdef(<<>>, Def(SP, "f", <<>>, Body1)))
  }

\* what may follow the last statement: nothing, or a blank line and a comment
Trailers == { <<>>, <<NL, "#", "e">> }

RECURSIVE StmtSeqs(_)
StmtSeqs(n) ==
  IF n = 0 THEN {<<>>}
  ELSE LET shorter == StmtSeqs(n - 1)
       IN shorter \cup {<<s>> \o q : s \in TopStmts, q \in {r \in shorter : Len(r) = n - 1}}

\* Module: the statements and the end marker, which carries the trailing text
Module(stmts, trailer) ==
  Annotate(PNode("file_input", stmts \o <<Leaf("EndMarker", trailer, <<>>)>>), 1, 0).ts[1]

Files == { Module(q, tr) : q \in StmtSeqs(MaxStmts) \ {<<>>}, tr \in Trailers }

\* ------------------------------------------------------------ file system
\* Paths are strings.  link.py is a symbolic link to a.py; sp/s.py lies under
\* a site-packages directory of the project; lib.py lies outside the project
\* directory; bin.so exists and cannot be read as text.

ProjectPaths == {"a.py", "b.py", "link.py", "site-packages/s.py"}
FilePaths == {"a.py", "b.py", "site-packages/s.py", "lib.py"}

\* Path.resolve()
resolve(p) == IF p = "link.py" THEN "a.py" ELSE p
\* 'site-packages' in f.parts
in_site_packages(p) == p = "site-packages/s.py"

\* ------------------------------------------------------- exceptions, alarm
\* The program is a state transformer over a record st: the heap and the
\* files the scanner owns.  st.exc is the exception in flight: an operation
\* applied to a state with an exception in flight does nothing (the exception
\* propagates).  st.ret holds the value the last call returned, st.off the
\* value the last get_offset returned, st.open the node writers held by the
\* local variables `node` / `file_node` of the active frames, innermost last.
\* st.alarm counts the points left before SIGALRM fires; -1 means no alarm is
\* pending.

Raise(st, e) == [st EXCEPT !.exc = e]

\* A point at which the alarm may fire.  raise_te raises TimeoutError there;
\* inside a try block with `except Exception`, the handler turns it into
\* `into`.
Tick(st, into) ==
  IF st.exc # NONE THEN st
  ELSE IF st.alarm = 0 THEN [st EXCEPT !.exc = into, !.alarm = -1, !.rang = TRUE]
  ELSE IF st.alarm > 0 THEN [st EXCEPT !.alarm = st.alarm - 1]
  ELSE st

\* --------------------------------------------------------- offset resolver

\* code.splitlines(keepends=True), as the index of the last character of
\* each line: a line ends with its newline, the last line with the code
line_ends(code) == {i \in 1..Len(code) : code[i] = NL \/ i = Len(code)}

\* scan_line_offsets(code): offs starts as [0]; after the k-th line the running
\* offset o, the number of characters up to the end of that line, is appended.
\* offs[i] of the code is scan_line_offsets(code)[i + 1] here.
scan_line_offsets(code) ==
  <<0>> \o [k \in 1..Cardinality(line_ends(code)) |->
             CHOOSE i \in line_ends(code) :
               Cardinality({j \in line_ends(code) : j <= i}) = k]

\* list[idx] of Python: negative indices count from the end
py_in_range(list, idx) == idx < Len(list) /\ idx >= 0 - Len(list)
py_index(list, idx) == IF idx >= 0 THEN list[idx + 1] ELSE list[Len(list) + idx + 1]

\* open(path).read(): the text of a readable file
readable(st, path) == resolve(path) \in DOMAIN st.fs
file_text(st, path) == st.fs[resolve(path)].code

\* _line_offsets[key] = scan_line_offsets(code).  key is the dictionary key:
\* <<"str", p>> for a path given as str, <<"Path", p>> for one given as a Path
\* object (the two never compare equal, nor hash alike).
set_line_offsets(st, key, code) ==
  IF st.exc # NONE THEN st
  ELSE [st EXCEPT
          !.line_offsets = [k \in DOMAIN st.line_offsets \cup {key} |->
                              IF k = key THEN scan_line_offsets(code)
                              ELSE st.line_offsets[k]],
          !.builds = Append(st.builds, key)]

\* get_offset, lines 51-53: the table of a path not seen yet is built
build_line_offsets(st, key) ==
  IF st.exc # NONE \/ key \in DOMAIN st.line_offsets THEN st
  ELSE IF ~readable(st, key[2]) THEN Raise(st, "KeyError")
  ELSE set_line_offsets(st, key, file_text(st, key[2]))

\* get_offset, line 54: _line_offsets[path][line - 1] + col
index_line_offsets(st, key, line, col) ==
  IF st.exc # NONE THEN st
  ELSE IF ~py_in_range(st.line_offsets[key], line - 1) THEN Raise(st, "KeyError")
  ELSE [st EXCEPT
          !.off = py_index(st.line_offsets[key], line - 1) + col,
          !.lookups = st.lookups \cup
             {[path |-> key[2], line |-> line, col |-> col,
               off |-> py_index(st.line_offsets[key], line - 1) + col]}]

\* get_offset(path, line, col); the result is in st.off.  Every exception
\* in the try block, the TimeoutError of the alarm included, becomes KeyError.
get_offset(st, key, line, col) ==
  index_line_offsets(build_line_offsets(Tick(st, "KeyError"), key), key, line, col)

\* ------------------------------------------------------------- ScanQueue

\* expand_path(p): the memoised Path.resolve(); the result is in st.ret
expand_path(st, p) ==
  IF st.exc # NONE THEN st
  ELSE IF p \in DOMAIN st.path_expansions
       THEN [st EXCEPT !.ret = st.path_expansions[p]]
       ELSE [st EXCEPT !.ret = resolve(p),
                       !.path_expansions =
                          [q \in DOMAIN st.path_expansions \cup {p} |->
                             IF q = p THEN resolve(p) ELSE st.path_expansions[q]]]

\* add_path without the test `p not in self.processed`: a faulty queue,
\* against which the dedup property is tried
add_expanded_unchecked(st) ==
  IF st.exc # NONE THEN st
  ELSE [st EXCEPT !.pending = st.pending \cup {st.ret},
                  !.added = st.added \cup {st.ret}]

\* ScanQueue.add_path, lines 105-106, on the expanded path in st.ret
add_expanded(st) ==
  IF st.exc # NONE THEN st
  ELSE IF st.ret \in st.processed THEN [st EXCEPT !.skipped = @ \cup {st.ret}]
  ELSE [st EXCEPT !.pending = st.pending \cup {st.ret},
                  !.added = st.added \cup {st.ret}]

\* ScanQueue.add_path
add_path(st, p) == add_expanded(expand_path(st, p))

\* add_imported without the test of self.system: a faulty queue, against
\* which the dependency policy is tried
add_imported_always(st, p) == add_path(st, p)

\* ScanQueue.add_imported
add_imported(st, p) == IF st.system THEN add_path(st, p) ELSE st

RECURSIVE add_all(_, _)
\* the loop of add_dir over the files found
add_all(st, ps) ==
  IF ps = {} THEN st
  ELSE add_all(add_path(st, CHOOSE q \in ps : TRUE), ps \ {CHOOSE q \in ps : TRUE})

\* ScanQueue.add_dir: listing is what dir.glob('**/*.py') yields
add_dir(st, found) == add_all(st, {f \in found : ~in_site_packages(f)})

\* mark_processed that forgets the path: a faulty queue, against which the
\* termination property is tried
mark_processed_lost(st, p) == st

\* ScanQueue.mark_processed
mark_processed(st, p) == [st EXCEPT !.processed = st.processed \cup {p}]

\* ScanQueue.next, popping p (set.pop() returns an arbitrary element)
next(st, p) ==
  [mark_processed([st EXCEPT !.pending = st.pending \ {p}], p)
     EXCEPT !.ret = p, !.popped = Append(st.popped, p)]

\* ScanQueue.__bool__
queue_bool(st) == Cardinality(st.pending) > 0

\* ----------------------------------------------------------------- writer
\* A UimTokenWriter is st.writers[w]: the Node under construction (kind,
\* path, start, nest_level, tokens, text) with calculated_line, text_parts and
\* offset.  A token's type, href, real_line and offset are what the record
\* stores; text, line, el, part, pos, cls and forced are annotations used to
\* state properties: the token's text, its line in the source, the definable
\* units whose elided rendering was being written (outermost first), whether
\* the token is a prefix, a value or an ellipsis marker, the (line, column)
\* and the class of the leaf it comes from, and whether g.href was set.

TokenTypes == {"WS", "Keyword", "Identifier", "Punctuation", "Literal"}
NodeKinds == {"SourceFile", "Definition"}
IndexItemKinds == {"IISymbol"}

\* ch.encode('utf-8')
encode_char(ch) ==
  IF ch = Ellipsis THEN <<"E2", "80", "A6">>
  ELSE IF ch = EAcute THEN <<"C3", "A9">>
  ELSE <<ch>>

\* text.encode('utf-8')
encode(text) == Concat([i \in 1..Len(text) |-> encode_char(text[i])])

\* the token append_token adds to writer tw
new_token(tw, token_type, text, href, real_line, note) ==
  [type |-> token_type,
   href |-> href,
   real_line |-> IF real_line # NoLine /\ tw.calculated_line # real_line
                 THEN real_line ELSE NoLine,
   offset |-> tw.offset,
   text |-> text, line |-> note.line, el |-> note.el,
   part |-> note.part, pos |-> note.pos, cls |-> note.cls, forced |-> note.forced]

\* append_token that takes an unknown token type for the default one instead
\* of raising: a faulty writer, against which fail-fast validation is tried
add_token_coerced(st, w, token_type, text, href, real_line, note) ==
  IF st.exc # NONE THEN st
  ELSE [st EXCEPT !.writers[w] =
          [@ EXCEPT !.offset = @ + Len(encode(text)),
                    !.text_parts = Append(@, encode(text)),
                    !.tokens = Append(@, new_token(st.writers[w], "WS", text,
                                                   href, real_line, note)),
                    !.calculated_line = @ + count_nl(text)]]

\* append_token that advances the running offset by the characters of the
\* text, not by its encoded bytes: a faulty writer, against which the token
\* offsets are tried
add_token_chars(st, w, token_type, text, href, real_line, note) ==
  IF st.exc # NONE THEN st
  ELSE IF token_type \notin TokenTypes THEN Raise(st, "ValueError")
  ELSE [st EXCEPT !.writers[w] =
          [@ EXCEPT !.offset = @ + Len(text),
                    !.text_parts = Append(@, encode(text)),
                    !.tokens = Append(@, new_token(st.writers[w], token_type, text,
                                                   href, real_line, note)),
                    !.calculated_line = @ + count_nl(text)]]

\* UimTokenWriter.append_token, lines 22-57
add_token(st, w, token_type, text, href, real_line, note) ==
  IF st.exc # NONE THEN st
  ELSE IF token_type \notin TokenTypes THEN Raise(st, "ValueError")
  ELSE [st EXCEPT !.writers[w] =
          [@ EXCEPT !.offset = @ + Len(encode(text)),
                    !.text_parts = Append(@, encode(text)),
                    !.tokens = Append(@, new_token(st.writers[w], token_type, text,
                                                   href, real_line, note)),
                    !.calculated_line = @ + count_nl(text)]]

\* UimTokenWriter.append_token(token_type, text, href, real_line)
append_token(st, w, token_type, text, href, real_line, note) ==
  add_token(Tick(st, "TimeoutError"), w, token_type, text, href, real_line, note)

\* the Location a new node starts at: `start or Location(0, 0, 0)`
start_or_zero(start) ==
  IF start # NoStart THEN start ELSE [line |-> 0, column |-> 0, offset |-> 0]

\* UimNodeWriter.begin_node(kind, path, start, nest_level); the new writer's
\* index is in st.ret
begin_node(st, kind, path, start, nest_level) ==
  IF st.exc # NONE THEN st
  ELSE IF kind \notin NodeKinds THEN Raise(st, "ValueError")
  ELSE [st EXCEPT
          !.writers = Append(@, [kind |-> kind, path |-> path,
                                 nest_level |-> nest_level,
                                 start |-> start_or_zero(start),
                                 tokens |-> <<>>, text |-> <<>>,
                                 calculated_line |-> start_or_zero(start).line,
                                 text_parts |-> <<>>, offset |-> 0]),
          !.ret = Len(st.writers) + 1]

\* the Node of a writer as write_node serialises it
node_record(tw) ==
  [kind |-> tw.kind, path |-> tw.path, start |-> tw.start,
   nest_level |-> tw.nest_level, tokens |-> tw.tokens, text |-> Concat(tw.text_parts)]

\* write_node, line 137: tw.node.text = b''.join(tw.text_parts)
join_text(st, w) ==
  IF st.exc # NONE THEN st
  ELSE [st EXCEPT !.writers[w].text = Concat(st.writers[w].text_parts)]

\* self.f.write(...) on the node file: the file object buffers
nodes_write(st, frame) ==
  IF st.exc # NONE THEN st ELSE [st EXCEPT !.nodes_buf = Append(@, frame)]

\* self.f.flush() on the node file
nodes_flush(st) ==
  IF st.exc # NONE THEN st
  ELSE [st EXCEPT !.nodes = @ \o st.nodes_buf, !.nodes_buf = <<>>]

\* write_node, lines 153: the serialised record goes to the file object
nodes_write_record(st, w) ==
  nodes_write(st, [f |-> "rec", rec |-> node_record(st.writers[w])])

\* UimNodeWriter.write_node(tw).  The length prefix and the record go to
\* the file object, flush() moves the buffer to the file.  An exception
\* inside the try block, the TimeoutError of the alarm included, is re-raised
\* as ValueError.
write_node(st, w) ==
  IF st.exc # NONE THEN st
  ELSE IF st.closed THEN Raise(st, "IOError")
  ELSE nodes_flush(
         Tick(nodes_write_record(
                Tick(nodes_write(join_text(Tick(st, "ValueError"), w), [f |-> "len"]),
                     "ValueError"), w),
              "ValueError"))

\* self.f.write(...) on the search file
search_write(st, frame) ==
  IF st.exc # NONE THEN st ELSE [st EXCEPT !.search_buf = Append(@, frame)]

\* self.f.flush() on the search file
search_flush(st) ==
  IF st.exc # NONE THEN st
  ELSE [st EXCEPT !.search = @ \o st.search_buf, !.search_buf = <<>>]

\* UimSearchIndexWriter.append(kind, key, href, path, typ)
search_append(st, kind, key, href, path, typ) ==
  IF st.exc # NONE THEN st
  ELSE IF st.closed THEN Raise(st, "IOError")
  ELSE IF kind \notin IndexItemKinds THEN Raise(st, "ValueError")
  ELSE search_flush(
         Tick(search_write(
                Tick(search_write(Tick(st, "ValueError"), [f |-> "len"]), "ValueError"),
                [f |-> "rec",
                 rec |-> [kind |-> kind, key |-> key, href |-> href, path |-> path,
                          type |-> typ]]),
              "ValueError"))

\* UimNodeWriter.close and UimSearchIndexWriter.close: closing flushes
close_writers(st) ==
  [st EXCEPT !.nodes = @ \o st.nodes_buf, !.nodes_buf = <<>>,
             !.search = @ \o st.search_buf, !.search_buf = <<>>,
             !.closed = TRUE]

\* ------------------------------------------------------------- resolver
\* script.goto(line, column, ...) is the external resolver (jedi).  A script's
\* resolver is a record: what it answers for a Name leaf and for any other
\* leaf.  An answer is no name at all, an exception other than the timeout, a
\* name without a location, or a name at (path, line, column).

Answer(r, path, line, column) ==
  [r |-> r, path |-> path, line |-> line, column |-> column]
NoName == Answer("none", NONE, 0, 0)
Raises == Answer("raise", NONE, 0, 0)
NoLocation == Answer("noloc", NONE, 0, 0)
At(path, line, column) == Answer("loc", path, line, column)

\* the leaf values write_content never asks the resolver about
Unresolved == {<<"(">>, <<")">>, <<",">>, <<"=">>, <<".">>, <<":">>, <<"}">>, <<NL>>}

goto(script, leaf) == IF leaf.type = "Name" THEN script.name ELSE script.other

\* -------------------------------------------------------------- the walk
\* G, the context of the walk: path, script, uim_node (an index of
\* st.writers), depth, omit_initial_prefix, href; el is the annotation passed
\* to the tokens (the units whose elided rendering is being written into
\* uim_node).

Note(g, part, tree, line) ==
  [el |-> g.el, part |-> part, pos |-> <<tree.line, tree.column>>, line |-> line,
   cls |-> tree.type, forced |-> g.href # NoHref]

\* tok_type(tree)
tok_type(tree) ==
  IF tree.type = "Keyword" THEN "Keyword"
  ELSE IF tree.type = "Literal" THEN "Literal"
  ELSE IF tree.type = "Operator" THEN "Punctuation"
  ELSE "Identifier"

\* write_ws_and_comments(uim_node, prefix, href, real_line)
write_ws_and_comments(st, w, prefix, href, real_line, note) ==
  append_token(st, w, "WS", prefix, href, real_line, note)

\* Location(line, col, offset) from the offset in st.off
to_location(st, tree) ==
  IF st.exc # NONE THEN st
  ELSE [st EXCEPT !.ret = [line |-> tree.line, column |-> tree.column, offset |-> st.off]]

\* {'path': path, 'offset': offset} from the offset in st.off
to_href(st, path) ==
  IF st.exc # NONE THEN st ELSE [st EXCEPT !.ret = [path |-> path, offset |-> st.off]]

\* loc_of(path, tree); the Location is in st.ret
loc_of(st, path, tree) ==
  to_location(get_offset(st, <<"str", path>>, tree.line, tree.column), tree)

\* uni_href(path, tree); the href is in st.ret
uni_href(st, path, tree) ==
  to_href(get_offset(st, <<"str", path>>, tree.line, tree.column), path)

\* write_content, lines 207-213, with p = expand_path(...) in st.ret: the
\* path is offered to the queue and the href built from the Path object
href_of_name(st, name) ==
  IF st.exc # NONE THEN st
  ELSE to_href(get_offset(add_imported(st, st.ret), <<"Path", st.ret>>,
                          name.line, name.column),
               st.ret)

\* href_of_locs without the `except:` around goto: the exception of the
\* resolver leaves write_content
href_of_locs_fatal(st, name) ==
  IF st.exc # NONE THEN st
  ELSE IF name.r = "raise" THEN Raise(st, "Exception")
  ELSE IF name.r # "loc" THEN [st EXCEPT !.ret = NoHref]
  ELSE href_of_name(expand_path(st, name.path), name)

\* write_content, lines 201-213: what is made of the answer of the resolver
href_of_locs(st, name) ==
  IF st.exc # NONE THEN st
  ELSE IF name.r # "loc" THEN [st EXCEPT !.ret = NoHref]
  ELSE href_of_name(expand_path(st, name.path), name)

\* write_content, lines 188-213: the href of a leaf; it is in st.ret
leaf_href(st, g, tree) ==
  IF st.exc # NONE THEN st
  ELSE IF g.href # NoHref THEN [st EXCEPT !.ret = g.href]
  ELSE IF tree.value \in Unresolved THEN [st EXCEPT !.ret = NoHref]
  ELSE href_of_locs(Tick(st, "TimeoutError"), goto(g.script, tree))

\* write_content, line 214, with the href in st.ret
append_leaf(st, g, tree) ==
  IF st.exc # NONE THEN st
  ELSE append_token(st, g.uim_node, tok_type(tree), tree.value, st.ret, tree.line,
                    Note(g, "value", tree, tree.line))

\* write_content, lines 182-186: the prefix of a leaf (a composite node has
\* no prefix attribute)
write_prefix(st, g, tree) ==
  IF st.exc # NONE THEN st
  ELSE IF tree.k = "Leaf" /\ tree.prefix # <<>> /\ ~g.omit_initial_prefix
  THEN write_ws_and_comments(st, g.uim_node, tree.prefix, g.href, tree.pline,
                             Note(g, "prefix", tree, tree.pline))
  ELSE st

\* the definition a unit points to: the last child through decorated nodes,
\* then its name if it has one (write_tree, lines 148-152)
RECURSIVE undecorated(_)
undecorated(tree) ==
  IF IsDecorated(tree) THEN undecorated(tree.children[Len(tree.children)]) ELSE tree
has_name(tree) == tree.k = "Node" /\ tree.type \in {"funcdef", "classdef"}
point_to(tree) ==
  IF has_name(undecorated(tree)) THEN undecorated(tree).children[2]
  ELSE undecorated(tree)

\* the writer held by the innermost `node` variable
top_open(st) == st.open[Len(st.open)]

\* node = begin_node(...): the local variable holds the new writer
hold_node(st) == IF st.exc # NONE THEN st ELSE [st EXCEPT !.open = Append(@, st.ret)]

\* the frame that held the innermost writer is left
drop_node(st) ==
  IF st.exc # NONE THEN st ELSE [st EXCEPT !.open = SubSeq(@, 1, Len(@) - 1)]

\* write_tree, lines 136-140, with loc_of(g.path, tree) in st.ret
begin_definition(st, g) ==
  IF st.exc # NONE THEN st
  ELSE hold_node(begin_node(st, "Definition", g.path, st.ret, g.depth + 1))

RECURSIVE write_tree(_, _, _)
RECURSIVE write_content(_, _, _)
RECURSIVE write_children(_, _, _)
RECURSIVE write_each(_, _, _)
RECURSIVE write_decorated(_, _, _)
RECURSIVE write_elided_def(_, _, _)
RECURSIVE write_elided_decorated_def(_, _, _)
RECURSIVE write_full(_, _, _)
RECURSIVE write_elided(_, _, _)
RECURSIVE write_definition(_, _, _)

\* the two halves of a list of children: a loop over cs is the loop over
\* front(cs) followed by the loop over back(cs)
front(cs) == SubSeq(cs, 1, Len(cs) \div 2)
back(cs) == SubSeq(cs, Len(cs) \div 2 + 1, Len(cs))

\* write_content(g, tree)
write_content(st, g, tree) ==
  CASE st.exc # NONE \/ IsEndMarker(tree) -> st
    [] tree.k = "Leaf" -> append_leaf(leaf_href(write_prefix(st, g, tree), g, tree), g, tree)
    [] OTHER -> write_children(st, g, tree.children)

\* the loop of write_content over tree.children (lines 216-219): write_tree on
\* each child in turn, omit_initial_prefix cleared after the first
write_children(st, g, cs) ==
  CASE cs = <<>> \/ st.exc # NONE -> st
    [] Len(cs) = 1 -> write_tree(st, g, cs[1])
    [] OTHER -> write_children(write_children(st, g, front(cs)),
                               [g EXCEPT !.omit_initial_prefix = FALSE], back(cs))

\* write_decorated(g, tree): write_content on each child in turn,
\* omit_initial_prefix cleared after the first
write_decorated(st, g, cs) ==
  CASE cs = <<>> \/ st.exc # NONE -> st
    [] Len(cs) = 1 -> write_content(st, g, cs[1])
    [] OTHER -> write_decorated(write_decorated(st, g, front(cs)),
                                [g EXCEPT !.omit_initial_prefix = FALSE], back(cs))

\* for c in cs: write_content(g, c), the loop of the two elided writers
write_each(st, g, cs) ==
  CASE cs = <<>> \/ st.exc # NONE -> st
    [] Len(cs) = 1 -> write_content(st, g, cs[1])
    [] OTHER -> write_each(write_each(st, g, front(cs)), g, back(cs))

\* the index of the first TRUE of a list of truth values, 0 when there is none
first_true(flags) ==
  IF \E i \in 1..Len(flags) : flags[i]
  THEN CHOOSE i \in 1..Len(flags) : flags[i] /\ \A j \in 1..(i - 1) : ~flags[j]
  ELSE 0

\* the index of the first child that is the operator ':' (write_elided_def,
\* line 227), 0 when none is
first_colon(cs) == first_true([i \in 1..Len(cs) |-> IsColon(cs[i])])

\* the index of the first child that is a ClassOrFunc
\* (write_elided_decorated_def, line 234), 0 when none is
first_class_or_func(cs) == first_true([i \in 1..Len(cs) |-> IsClassOrFunc(cs[i])])

\* write_elided_def, line 228: g.uim_node.append_token('WS', ' ...', g.href)
append_ellipsis(st, g, colon) ==
  IF st.exc # NONE THEN st
  ELSE append_token(st, g.uim_node, "WS", <<" ", Ellipsis>>, g.href, NoLine,
                    Note(g, "mark", colon, colon.line))

\* write_elided_def(g, df), cs the children of df: the children up to the
\* first colon are written, the ellipsis marker follows the colon and the
\* loop breaks; without a colon every child is written
write_elided_def(st, g, cs) ==
  CASE st.exc # NONE -> st
    [] first_colon(cs) = 0 -> write_each(st, g, cs)
    [] OTHER -> append_ellipsis(write_each(st, g, SubSeq(cs, 1, first_colon(cs))),
                                g, cs[first_colon(cs)])

\* write_elided_decorated_def(g, df), cs the children of df: the children
\* before the first class or function are written, then its elided form, and
\* the loop breaks
write_elided_decorated_def(st, g, cs) ==
  CASE st.exc # NONE -> st
    [] first_class_or_func(cs) = 0 -> write_each(st, g, cs)
    [] OTHER -> write_elided_def(
                  write_each(st, g, SubSeq(cs, 1, first_class_or_func(cs) - 1)),
                  g, cs[first_class_or_func(cs)].children)

\* the G of the full rendering (write_tree, line 145)
inner_g(st, g) ==
  [g EXCEPT !.uim_node = top_open(st), !.depth = g.depth + 1,
            !.omit_initial_prefix = TRUE, !.el = <<>>]

\* write_tree, line 146: g.node_writer.write_node(node)
write_held_node(st) ==
  IF st.exc # NONE THEN st ELSE drop_node(write_node(st, top_open(st)))

\* write_tree, lines 141-146: the full rendering goes to the new node, which
\* is then written to the stream
write_full(st, g, tree) ==
  CASE st.exc # NONE -> st
    [] IsDecorated(tree) -> write_held_node(write_decorated(st, inner_g(st, g), tree.children))
    [] OTHER -> write_held_node(write_content(st, inner_g(st, g), tree))

\* the G of the elided rendering (write_tree, line 157), with
\* uni_href(g.path, point_to) in st.ret
elided_g(st, g, tree) ==
  [g EXCEPT !.href = st.ret, !.el = Append(g.el, <<tree.line, tree.column>>)]

\* write_tree, lines 153-157: the elided rendering goes to the enclosing node
\* under the forced href
write_elided(st, g, tree) ==
  CASE st.exc # NONE -> st
    [] IsDecorated(tree) -> write_elided_decorated_def(st, elided_g(st, g, tree), tree.children)
    [] OTHER -> write_elided_def(st, elided_g(st, g, tree), tree.children)

\* write_tree, lines 161-166, with get_offset(g.path, line, col) in st.off
append_symbol(st, g, tree) ==
  IF st.exc # NONE THEN st
  ELSE search_append(st, "IISymbol", point_to(tree).value,
                     [path |-> g.path, offset |-> st.off], g.path, NONE)

\* write_tree, lines 159-166: a unit that points to a Name is indexed
index_symbol(st, g, tree) ==
  IF st.exc # NONE \/ ~(point_to(tree).k = "Leaf" /\ point_to(tree).type = "Name")
  THEN st
  ELSE append_symbol(get_offset(st, <<"str", g.path>>, tree.line, tree.column),
                     g, tree)

\* write_tree, lines 148-166: after the node of the unit is written
write_reference(st, g, tree) ==
  IF st.exc # NONE THEN st
  ELSE index_symbol(write_elided(uni_href(st, g.path, point_to(tree)), g, tree), g, tree)

\* write_tree, lines 135-166: a definable unit
write_definition(st, g, tree) ==
  write_reference(write_full(begin_definition(loc_of(st, g.path, tree), g), g, tree),
                  g, tree)

\* write_tree(g, tree)
write_tree(st, g, tree) ==
  CASE st.exc # NONE -> st
    [] IsClassOrFunc(tree) \/ IsDecorated(tree) -> write_definition(st, g, tree)
    [] OTHER -> write_content(st, g, tree)

\* ------------------------------------------------------------- scan_repo

VARIABLES
  fs,               \* the files: path -> [code, tree, script] (the text, and
                    \* what the parser and the resolver give for it)
  listing,          \* what repo_root.glob('**/*.py') yields
  system,           \* ScanQueue.system
  has_alarm,        \* whether setup_timeout can install the SIGALRM handler
  pc,               \* "init", "crawl", "done", "crashed" or "queue"
  pending,          \* ScanQueue.pending
  processed,        \* ScanQueue.processed
  path_expansions,  \* _path_expansions
  line_offsets,     \* _line_offsets
  nodes,            \* the node stream, as flushed to the file
  nodes_buf,        \* written to the node file object and not yet flushed
  search,           \* the search stream, as flushed to the file
  search_buf,       \* written to the search file object and not yet flushed
  closed,           \* the writers are closed
  builds,           \* history: the keys of the line-offset tables built, in order
  lookups,          \* history: the answers of get_offset
  added,            \* history: every path that was ever put in pending
  skipped,          \* history: the paths add_path found in processed
  popped,           \* history: the paths returned by next(), in order
  outcome,          \* history: path -> how the walk of the file ended
  fired,            \* history: how many walks the alarm interrupted
  calls,            \* history: calls made on a free-standing object
  writers,          \* the UimTokenWriters of a free-standing UimNodeWriter
  cut,              \* history: the Nodes that were open when TimeoutError
                    \* reached scan_repo, as they were then
  answer            \* history: the last free-standing call and how it ended

vars == <<fs, listing, system, has_alarm, pc, pending, processed, path_expansions,
          line_offsets, nodes, nodes_buf, search, search_buf, closed, builds,
          lookups, added, skipped, popped, outcome, fired, calls, writers, cut,
          answer>>

\* the state the operations transform: the variables, and the locals of a call
State ==
  [fs |-> fs, system |-> system, pending |-> pending, processed |-> processed,
   path_expansions |-> path_expansions, line_offsets |-> line_offsets,
   nodes |-> nodes, nodes_buf |-> nodes_buf, search |-> search,
   search_buf |-> search_buf, closed |-> closed, builds |-> builds,
   lookups |-> lookups, added |-> added, skipped |-> skipped, popped |-> popped,
   writers |-> writers, open |-> <<>>, exc |-> NONE, ret |-> NONE, off |-> 0,
   alarm |-> -1, rang |-> FALSE, walked |-> NONE, held |-> <<>>]

Becomes(st) ==
  /\ pending' = st.pending
  /\ processed' = st.processed
  /\ path_expansions' = st.path_expansions
  /\ line_offsets' = st.line_offsets
  /\ nodes' = st.nodes
  /\ nodes_buf' = st.nodes_buf
  /\ search' = st.search
  /\ search_buf' = st.search_buf
  /\ closed' = st.closed
  /\ builds' = st.builds
  /\ lookups' = st.lookups
  /\ added' = st.added
  /\ skipped' = st.skipped
  /\ popped' = st.popped

RECURSIVE write_module(_, _, _)
\* scan_repo, lines 280-281: for df in module_node.children: write_tree(g, df)
write_module(st, g, cs) ==
  CASE cs = <<>> \/ st.exc # NONE -> st
    [] Len(cs) = 1 -> write_tree(st, g, cs[1])
    [] OTHER -> write_module(write_module(st, g, front(cs)), g, back(cs))

\* setup_timeout(120): the alarm is armed (budget -1: it never fires)
setup_timeout(st, budget) == [st EXCEPT !.alarm = budget]

\* scan_repo, lines 253-265: the path is popped and parsed, its line-offset
\* table set, the SourceFile node opened
begin_file(st, p) ==
  hold_node(
    begin_node(set_line_offsets(next(st, p), <<"str", p>>, st.fs[p].code),
               "SourceFile", p, NoStart, 0))

\* the G of scan_repo, lines 267-276
file_g(st, p) ==
  [path |-> p, script |-> st.fs[p].script, uim_node |-> top_open(st), depth |-> 0,
   omit_initial_prefix |-> FALSE, href |-> NoHref, el |-> <<>>]

\* scan_repo, lines 280-281: the walk of the file
walk_file(st, p) == write_module(st, file_g(st, p), st.fs[p].tree.children)

\* scan_repo, lines 282-285: TimeoutError is caught and the frames of the walk
\* are left; clear_timeout disarms the alarm; any other exception propagates
end_walk(st) ==
  [st EXCEPT !.alarm = -1,
             !.walked = IF st.exc = NONE THEN "ok" ELSE st.exc,
             !.held = IF st.exc = "TimeoutError"
                      THEN [i \in 1..Len(st.open) |-> node_record(st.writers[st.open[i]])]
                      ELSE <<>>,
             !.exc = IF st.exc = "TimeoutError" THEN NONE ELSE st.exc,
             !.open = <<Head(st.open)>>]

\* scan_repo, line 287: uim_node_writer.write_node(file_node)
end_file(st) == write_node(st, top_open(st))

\* one iteration of the loop of scan_repo
scan_file(st, p, budget) ==
  end_file(end_walk(walk_file(setup_timeout(begin_file(st, p), budget), p)))

\* leaving the `with` block closes the writers, also when an exception leaves it
leave(st) == IF st.exc = NONE THEN st ELSE close_writers(st)

\* the alarm budgets of a walk: -1 when the alarm never fires
Budgets == IF has_alarm /\ fired < MaxAlarms THEN -1 .. MaxTicks ELSE {-1}

\* scan_repo, lines 245-246
AddDir ==
  /\ pc = "init"
  /\ Becomes(add_dir(State, listing))
  /\ pc' = "crawl"
  /\ UNCHANGED <<fs, listing, system, has_alarm, outcome, fired, calls, writers, cut, answer>>

\* the state after one iteration that ended in st
Scanned(st, p) ==
  /\ Becomes(leave(st))
  /\ pc' = IF st.exc = NONE THEN "crawl" ELSE "crashed"
  /\ outcome' = [q \in DOMAIN outcome \cup {p} |->
                   IF q = p THEN st.walked ELSE outcome[q]]
  /\ fired' = IF st.rang THEN fired + 1 ELSE fired
  /\ cut' = cut \o st.held

\* scan_repo, lines 252-287: one iteration of `while scan_queue`
ScanFile ==
  /\ pc = "crawl"
  /\ queue_bool(State)
  /\ \E p \in pending, budget \in Budgets : Scanned(scan_file(State, p, budget), p)
  /\ UNCHANGED <<fs, listing, system, has_alarm, calls, writers, answer>>

\* scan_repo, lines 248-252: the queue is empty, the writers are closed
Finish ==
  /\ pc = "crawl"
  /\ ~queue_bool(State)
  /\ Becomes(close_writers(State))
  /\ pc' = "done"
  /\ UNCHANGED <<fs, listing, system, has_alarm, outcome, fired, calls, writers, cut, answer>>

Next == AddDir \/ ScanFile \/ Finish

\* ----------------------------------------------------------- the crawl
\* Small files, one per path; every file of a repository has the same script.

CrawlTree(p) ==
  IF p = "a.py" THEN Module(<<Def(<<>>, "f", <<>>, Body1)>>, <<>>)
  ELSE IF p = "b.py" THEN Module(<<Simple(<<>>, "x")>>, <<>>)
  ELSE IF p = "lib.py" THEN Module(<<Simple(<<>>, "x"), Simple(<<>>, "y")>>, <<>>)
  ELSE Module(<<Simple(<<>>, "y")>>, <<>>)

\* bin.so cannot be read as text; lib.py has two lines, so that line 4 is
\* beyond its line-offset table
Answers ==
  {NoName, Raises, NoLocation, At("bin.so", 1, 0), At("lib.py", 4, 0)}
    \cup {At(p, 1, 0) : p \in ProjectPaths \cup {"lib.py"}}

Scripts ==
  {[name |-> a, other |-> NoName] : a \in Answers}
    \cup {[name |-> Raises, other |-> Raises]}

Listings == {{"a.py"}, ProjectPaths}

\* a file whose text parses to tree, with the Script jedi makes for it
SourceFile(tree, sc) == [code |-> get_code(tree), tree |-> tree, script |-> sc]

\* before any free-standing call
NoAnswer == [call |-> NONE]

InitQueue ==
  /\ pending = {}
  /\ processed = {}
  /\ path_expansions = <<>>
  /\ line_offsets = <<>>
  /\ nodes = <<>>
  /\ nodes_buf = <<>>
  /\ search = <<>>
  /\ search_buf = <<>>
  /\ closed = FALSE
  /\ builds = <<>>
  /\ lookups = {}
  /\ added = {}
  /\ skipped = {}
  /\ popped = <<>>
  /\ outcome = <<>>
  /\ fired = 0
  /\ calls = 0
  /\ writers = <<>>
  /\ cut = <<>>
  /\ answer = NoAnswer

Init ==
  /\ \E sc \in Scripts : fs = [p \in FilePaths |-> SourceFile(CrawlTree(p), sc)]
  /\ listing \in Listings
  /\ system \in BOOLEAN
  /\ has_alarm \in BOOLEAN
  /\ pc = "init"
  /\ InitQueue

Spec == Init /\ [][Next]_vars

\* What a step of Next does to pc and popped: AddDir and Finish move pc on,
\* ScanFile appends the popped path.  A step of Next is possible exactly when
\* pc is "init" or "crawl", that is, when LoopStep is.
LoopStep ==
  /\ pc \in {"init", "crawl"}
  /\ pc' \in {"crawl", "done", "crashed"}
  /\ popped' \in {popped} \cup {Append(popped, p) : p \in pending}

\* The crawl under an interpreter that keeps running: while scan_repo can
\* take its next step, it eventually takes it.
FairSpec == Spec /\ WF_<<pc, popped>>(LoopStep)

\* ------------------------------------------------------- the walk of a file
\* One generated file a.py, walked without an alarm, with each script.

WalkScripts ==
  {[name |-> a, other |-> NoName] : a \in {NoName, Raises, NoLocation, At("a.py", 1, 0), At("lib.py", 2, 0)}}

InitWalk ==
  /\ \E t \in Files, sc \in WalkScripts :
        fs = [p \in {"a.py", "lib.py"} |->
                SourceFile(IF p = "a.py" THEN t ELSE CrawlTree(p), sc)]
  /\ listing = {"a.py"}
  /\ system = FALSE
  /\ has_alarm = FALSE
  /\ pc = "init"
  /\ InitQueue

SpecWalk == InitWalk /\ [][Next]_vars

\* ------------------------------------------------- a free-standing ScanQueue
\* Any sequence of add_path, add_imported, add_dir and next on one queue.

QueuePaths == ProjectPaths \cup {"lib.py"}

InitCalls ==
  /\ fs = <<>>
  /\ listing = {}
  /\ system \in BOOLEAN
  /\ has_alarm = FALSE
  /\ pc = "queue"
  /\ InitQueue

Called(st) ==
  /\ calls < MaxCalls
  /\ calls' = calls + 1
  /\ Becomes(st)
  /\ UNCHANGED <<fs, listing, system, has_alarm, pc, outcome, fired, writers, cut, answer>>

CallAddPath == \E p \in QueuePaths : Called(add_path(State, p))

CallAddImported == \E p \in QueuePaths : Called(add_imported(State, p))

CallAddDir == \E found \in Listings : Called(add_dir(State, found))

CallNext == queue_bool(State) /\ \E p \in pending : Called(next(State, p))

NextCalls == CallAddPath \/ CallAddImported \/ CallAddDir \/ CallNext

SpecQueue == InitCalls /\ [][NextCalls]_vars

\* ------------------------------------------- a free-standing offset resolver
\* get_offset called with any path, line and column, the path given as a str
\* or as a Path object.  a.py is x, a blank line and a comment without a final
\* newline (three lines); b.py has one line, lib.py two; bin.so cannot be read.

ResolveTree(p) ==
  IF p = "a.py" THEN Module(<<Simple(<<>>, "x")>>, <<NL, "#", "e">>) ELSE CrawlTree(p)

ResolvePaths == {"a.py", "b.py", "lib.py", "bin.so"}

InitResolve ==
  /\ fs = [p \in FilePaths |->
             SourceFile(ResolveTree(p), [name |-> NoName, other |-> NoName])]
  /\ listing = {}
  /\ system = FALSE
  /\ has_alarm = FALSE
  /\ pc = "resolve"
  /\ InitQueue

\* the state after get_offset(path, line, col) ended in st
Resolved(st, key, line, col) ==
  /\ calls < MaxResolves
  /\ calls' = calls + 1
  /\ Becomes(st)
  /\ answer' = [call |-> "get_offset", key |-> key, line |-> line, col |-> col,
                exc |-> st.exc, off |-> IF st.exc = NONE THEN st.off ELSE 0]
  /\ UNCHANGED <<fs, listing, system, has_alarm, pc, outcome, fired, writers, cut>>

CallGetOffset ==
  \E kind \in {"str", "Path"}, p \in ResolvePaths, line \in (0 - MaxLine)..MaxLine,
     col \in 0..1 :
    Resolved(get_offset(State, <<kind, p>>, line, col), <<kind, p>>, line, col)

SpecResolve == InitResolve /\ [][CallGetOffset]_vars

\* ------------------------------------------------- free-standing writers
\* Any sequence of begin_node, append_token, write_node and
\* UimSearchIndexWriter.append on one pair of writers, with known and unknown
\* enumerator names and with texts of one, two and three bytes per character.

Bogus == "Bogus"

WriterTexts == {<<"x">>, <<EAcute, NL>>, <<" ", Ellipsis>>}

WriterStart == [line |-> 2, column |-> 0, offset |-> 3]

WriterHref == [path |-> "a.py", offset |-> 3]

\* what the properties record of a token appended by a free-standing call
WriterNote ==
  [el |-> <<>>, part |-> "value", pos |-> <<0, 0>>, line |-> NoLine, cls |-> NONE,
   forced |-> FALSE]

InitWriter ==
  /\ fs = <<>>
  /\ listing = {}
  /\ system = FALSE
  /\ has_alarm = FALSE
  /\ pc = "writer"
  /\ InitQueue

\* the state after a call on a writer ended in st
Wrote(st, call, kind) ==
  /\ calls < MaxWrites
  /\ calls' = calls + 1
  /\ Becomes(st)
  /\ writers' = st.writers
  /\ answer' = [call |-> call, kind |-> kind, exc |-> st.exc]
  /\ UNCHANGED <<fs, listing, system, has_alarm, pc, outcome, fired, cut>>

CallBeginNode ==
  /\ Len(writers) < MaxNodes
  /\ \E kind \in NodeKinds \cup {Bogus} :
       Wrote(begin_node(State, kind, "a.py", WriterStart, 1), "begin_node", kind)

CallAppendToken ==
  \E w \in DOMAIN writers, type \in {"WS", "Identifier", Bogus}, text \in WriterTexts :
    Wrote(append_token(State, w, type, text, WriterHref, NoLine, WriterNote),
          "append_token", type)

CallWriteNode ==
  \E w \in DOMAIN writers : Wrote(write_node(State, w), "write_node", writers[w].kind)

CallSearchAppend ==
  \E kind \in IndexItemKinds \cup {Bogus} :
    Wrote(search_append(State, kind, <<"f">>, WriterHref, "a.py", NONE), "append", kind)

NextWriter == CallBeginNode \/ CallAppendToken \/ CallWriteNode \/ CallSearchAppend

SpecWriter == InitWriter /\ [][NextWriter]_vars

\* ------------------------------------------------------------ properties
\* What the properties read from a state: the records of the node stream and
\* the syntax trees of the files.

IsRecord(frame) == frame.f = "rec"

\* the Node records of the node stream, in the order written
NodeRecords ==
  [i \in 1..Len(SelectSeq(nodes, IsRecord)) |-> SelectSeq(nodes, IsRecord)[i].rec]

\* the files whose walk ran to its end
Walked == {p \in DOMAIN outcome : outcome[p] = "ok"}

\* the SourceFile record of a walked file
RootOf(p) ==
  NodeRecords[CHOOSE i \in DOMAIN NodeRecords :
                NodeRecords[i].kind = "SourceFile" /\ NodeRecords[i].path = p]

RECURSIVE Subtrees(_)
Subtrees(tree) ==
  {tree} \cup UNION {Subtrees(tree.children[i]) : i \in 1..Len(tree.children)}

\* a definable unit of a syntax tree
IsUnit(tree) == IsClassOrFunc(tree) \/ IsDecorated(tree)

\* the definable unit of file p that starts at pos = <<line, column>>
UnitAt(p, pos) ==
  CHOOSE t \in Subtrees(fs[p].tree) : IsUnit(t) /\ <<t.line, t.column>> = pos

\* the bytes of the i-th token of a record, cut from the record's text at the
\* token offsets
TokenBytes(rec, i) ==
  SubSeq(rec.text, rec.tokens[i].offset + 1,
         IF i < Len(rec.tokens) THEN rec.tokens[i + 1].offset ELSE Len(rec.text))

\* A token of an elision placeholder: it was written as part of the elided
\* rendering of a unit, and is not the whitespace that precedes the unit.
Placeholder(tok) ==
  /\ tok.el # <<>>
  /\ ~(tok.part = "prefix" /\ Len(tok.el) = 1 /\ tok.pos = tok.el[1])

\* the i-th token is the first of its placeholder
StartsPlaceholder(toks, i) ==
  /\ Placeholder(toks[i])
  /\ i = 1 \/ ~Placeholder(toks[i - 1]) \/ toks[i - 1].el[1] # toks[i].el[1]

\* the records of the children of rec for the unit at pos, as stream indices
ChildrenAt(rec, pos) ==
  {i \in DOMAIN NodeRecords :
     /\ NodeRecords[i].kind = "Definition"
     /\ NodeRecords[i].path = rec.path
     /\ <<NodeRecords[i].start.line, NodeRecords[i].start.column>> = pos
     /\ NodeRecords[i].nest_level = rec.nest_level + 1}

\* the first of them in the stream
Child(rec, pos) ==
  NodeRecords[CHOOSE i \in ChildrenAt(rec, pos) : \A j \in ChildrenAt(rec, pos) : i <= j]

RECURSIVE Expand(_)
\* the text of a record with every placeholder replaced by the expanded text
\* of the child it stands for
Expand(rec) ==
  Concat([i \in 1..Len(rec.tokens) |->
            IF ~Placeholder(rec.tokens[i]) THEN TokenBytes(rec, i)
            ELSE IF StartsPlaceholder(rec.tokens, i)
                    /\ ChildrenAt(rec, rec.tokens[i].el[1]) # {}
            THEN Expand(Child(rec, rec.tokens[i].el[1]))
            ELSE <<>>])

\* C1 (byte-exact round trip): for every file walked to its end, the text of
\* the root SourceFile record, with each elision placeholder replaced by the
\* text of the corresponding child Definition record, recursively and in
\* document order, is exactly the content of the file, whatever follows the
\* last statement included.
C1_RoundTrip == \A p \in Walked : Expand(RootOf(p)) = encode(fs[p].code)

\* a file that ends with a blank line and a comment was walked to its end, and
\* its root record holds an elision placeholder
C1_Witness ==
  \E p \in Walked :
    /\ get_first_leaf(fs[p].tree.children[Len(fs[p].tree.children)]).prefix # <<>>
    /\ \E i \in DOMAIN RootOf(p).tokens : Placeholder(RootOf(p).tokens[i])

\* C2 (queue dedup): under any sequence of add_path, add_imported, add_dir and
\* next, no path is returned by next twice, and pending and processed are
\* disjoint.
C2_QueueDedup ==
  /\ pending \cap processed = {}
  /\ \A i, j \in DOMAIN popped : i # j => popped[i] # popped[j]

\* a path was added again after next returned it, and next was called again
C2_Witness == skipped # {} /\ Len(popped) >= 2

\* Record c contains record r: c is the root of r's file, or the unit c
\* renders properly encloses, in the syntax tree, the unit r renders.
Contains(c, r) ==
  /\ r.kind = "Definition"
  /\ c.path = r.path
  /\ \/ c.kind = "SourceFile"
     \/ \E t \in Subtrees(fs[c.path].tree) :
          /\ IsUnit(t)
          /\ <<t.line, t.column>> = <<c.start.line, c.start.column>>
          /\ \E u \in Subtrees(t) \ {t} :
               /\ IsUnit(u)
               /\ <<u.line, u.column>> = <<r.start.line, r.start.column>>

\* C3 (nesting invariant): in the records written for a walked file, the root
\* SourceFile record has nest_level 0 and every Definition record has the
\* nest_level of the innermost record that contains it, plus 1.
C3_Nesting ==
  \A i \in DOMAIN NodeRecords :
    NodeRecords[i].path \in Walked =>
      IF NodeRecords[i].kind = "SourceFile" THEN NodeRecords[i].nest_level = 0
      ELSE \E j \in DOMAIN NodeRecords :
             /\ Contains(NodeRecords[j], NodeRecords[i])
             /\ NodeRecords[i].nest_level = NodeRecords[j].nest_level + 1
             /\ \A k \in DOMAIN NodeRecords :
                  Contains(NodeRecords[k], NodeRecords[i])
                    => NodeRecords[k].nest_level <= NodeRecords[j].nest_level

\* a walked file with a Definition record two levels deep
C3_Witness ==
  \E i \in DOMAIN NodeRecords :
    NodeRecords[i].path \in Walked /\ NodeRecords[i].nest_level = 2

\* C4 (flush ordering): within one file, the record of a Definition is in the
\* stream before the record of every Node that contains it; the SourceFile
\* record comes after all the Definition records of the file.
C4_FlushOrder ==
  \A i, j \in DOMAIN NodeRecords :
    (NodeRecords[i].path \in Walked /\ i # j /\ Contains(NodeRecords[j], NodeRecords[i]))
      => i < j

\* a walked file with a Definition record inside another Definition record
C4_Witness ==
  \E i, j \in DOMAIN NodeRecords :
    /\ NodeRecords[i].path \in Walked
    /\ i < j
    /\ NodeRecords[j].kind = "Definition"
    /\ Contains(NodeRecords[j], NodeRecords[i])

RECURSIVE Leaves(_)
\* the leaves of a tree, in document order
Leaves(tree) ==
  IF tree.k = "Leaf" THEN <<tree>>
  ELSE Concat([i \in 1..Len(tree.children) |-> Leaves(tree.children[i])])

RECURSIVE HeaderLeaves(_)
\* the leaves of a unit from its start up to and including the body-opening
\* colon of the innermost definition: for a class, function or lambda, the
\* children up to its colon; for a decorated or async definition, every child
\* but the last, then the header of the last
HeaderLeaves(tree) ==
  IF IsClassOrFunc(tree)
  THEN Concat([i \in 1..first_colon(tree.children) |-> Leaves(tree.children[i])])
  ELSE Concat([i \in 1..(Len(tree.children) - 1) |-> Leaves(tree.children[i])])
         \o HeaderLeaves(tree.children[Len(tree.children)])

\* the token texts of a leaf: its prefix if it has one, then its value
LeafTexts(leaf) ==
  IF leaf.prefix # <<>> THEN <<leaf.prefix, leaf.value>> ELSE <<leaf.value>>

\* the token texts of the elided rendering of a unit: the header, then one
\* ellipsis marker
ElidedTexts(tree) ==
  Concat([i \in 1..Len(HeaderLeaves(tree)) |-> LeafTexts(HeaderLeaves(tree)[i])])
    \o << <<" ", Ellipsis>> >>

\* the units whose elided rendering was appended to a record
ElidedUnits(rec) ==
  {rec.tokens[i].el[1] : i \in {j \in DOMAIN rec.tokens : rec.tokens[j].el # <<>>}}

\* part of the elided rendering of the unit at pos
InElided(tok, pos) == tok.el # <<>> /\ tok.el[1] = pos

\* the indices of the tokens of the elided rendering, in a record, of the
\* unit at pos
ElidedAt(rec, pos) == {i \in DOMAIN rec.tokens : InElided(rec.tokens[i], pos)}

\* the texts of those tokens, in order
ElidedTokenTexts(rec, pos) ==
  [k \in 1..Cardinality(ElidedAt(rec, pos)) |->
     rec.tokens[CHOOSE i \in ElidedAt(rec, pos) :
                  Cardinality({j \in ElidedAt(rec, pos) : j <= i}) = k].text]

\* C5 (elision shape): the elided rendering of a unit in its parent record is
\* the unit's tokens from its start (the first decorator of a decorated unit)
\* up to and including the body-opening colon, followed by exactly one
\* ellipsis marker token of type WS, with no token of the body.
C5_ElisionShape ==
  \A r \in DOMAIN NodeRecords : \A pos \in ElidedUnits(NodeRecords[r]) :
    /\ ElidedTokenTexts(NodeRecords[r], pos) = ElidedTexts(UnitAt(NodeRecords[r].path, pos))
    /\ Cardinality({i \in ElidedAt(NodeRecords[r], pos) :
                      NodeRecords[r].tokens[i].part = "mark"}) = 1
    /\ \A i \in ElidedAt(NodeRecords[r], pos) :
         NodeRecords[r].tokens[i].part = "mark" => NodeRecords[r].tokens[i].type = "WS"

\* the elided rendering of a decorated unit is in a record
C5_Witness ==
  \E r \in DOMAIN NodeRecords : \E pos \in ElidedUnits(NodeRecords[r]) :
    IsDecorated(UnitAt(NodeRecords[r].path, pos))

\* the href of the name of a unit of file p (of the unit itself when it has
\* no name)
NameHref(p, tree) ==
  [path |-> p,
   offset |-> py_index(scan_line_offsets(fs[p].code), point_to(tree).line - 1)
                + point_to(tree).column]

\* C6 (href forcing): every token of the elided rendering of a unit in its
\* parent record (leading whitespace, header tokens, ellipsis marker) carries
\* the same href, the location of the unit's own name token.
C6_HrefForcing ==
  \A r \in DOMAIN NodeRecords : \A pos \in ElidedUnits(NodeRecords[r]) :
    \A i \in ElidedAt(NodeRecords[r], pos) :
      NodeRecords[r].tokens[i].href = NameHref(NodeRecords[r].path, UnitAt(NodeRecords[r].path, pos))

\* an elided rendering holds a name the resolver locates elsewhere
C6_Witness ==
  \E r \in DOMAIN NodeRecords : \E pos \in ElidedUnits(NodeRecords[r]) :
    /\ fs[NodeRecords[r].path].script.name.r = "loc"
    /\ \E i \in ElidedAt(NodeRecords[r], pos) : NodeRecords[r].tokens[i].cls = "Name"

\* the newlines in the texts of the tokens of a record before the i-th
NewlinesBefore(rec, i) == count_nl(Concat([j \in 1..(i - 1) |-> rec.tokens[j].text]))

\* C7 (delta line encoding): a token's explicit line is stored if and only if
\* the token's line differs from the record's start line plus the newlines of
\* the tokens appended before it.
C7_DeltaLines ==
  \A r \in DOMAIN NodeRecords : \A i \in DOMAIN NodeRecords[r].tokens :
    (NodeRecords[r].tokens[i].real_line # NoLine)
      <=> (NodeRecords[r].tokens[i].line
             # NodeRecords[r].start.line + NewlinesBefore(NodeRecords[r], i))

\* a record holds a token with an explicit line and a token without one
C7_Witness ==
  \E r \in DOMAIN NodeRecords : \E i, j \in DOMAIN NodeRecords[r].tokens :
    /\ NodeRecords[r].tokens[i].real_line # NoLine
    /\ NodeRecords[r].tokens[j].real_line = NoLine

\* every token written for a name the resolver locates, outside a forced
\* href, points into the located file
HrefsIntoTargets ==
  \A r \in DOMAIN NodeRecords : \A i \in DOMAIN NodeRecords[r].tokens :
    (/\ NodeRecords[r].tokens[i].cls = "Name"
     /\ NodeRecords[r].tokens[i].part = "value"
     /\ ~NodeRecords[r].tokens[i].forced
     /\ fs[NodeRecords[r].path].script.name.r = "loc")
      => NodeRecords[r].tokens[i].href.path = resolve(fs[NodeRecords[r].path].script.name.path)

\* C8 (dependency policy): with system = False no step of the crawl puts in
\* pending or processed a path that was in neither (a file a token resolves
\* to is never added and never popped), and the tokens are written with an
\* href whose path is the file they resolve to.
C8_DependencyPolicy ==
  [][(~system /\ pc # "init")
       => /\ (pending' \cup processed') \subseteq (pending \cup processed)
          /\ HrefsIntoTargets']_vars

\* the crawl ended with system = False and a token points into a file that
\* was never queued
C8_Witness ==
  /\ ~system
  /\ pc = "done"
  /\ \E r \in DOMAIN NodeRecords : \E i \in DOMAIN NodeRecords[r].tokens :
       /\ NodeRecords[r].tokens[i].href # NoHref
       /\ NodeRecords[r].tokens[i].href.path \notin added

\* C9 (idempotent offset resolution): in one run the same (path, line,
\* column) always resolves to the same offset, and the line-offset table of
\* each path is built exactly once, whether the file is scanned or is the
\* target of a resolved reference.
C9_OffsetsOnce ==
  /\ \A a, b \in lookups :
       (a.path = b.path /\ a.line = b.line /\ a.col = b.col) => a.off = b.off
  /\ \A i, j \in DOMAIN builds : i # j => builds[i][2] # builds[j][2]

\* a scanned file was also the target of a resolved reference
C9_Witness ==
  \E i, j \in DOMAIN builds :
    builds[i][1] = "str" /\ builds[j][1] = "Path" /\ builds[i][2] = builds[j][2]

\* C10 (crawl termination): the crawl loop eventually stops, and when it stops
\* with the queue empty every path that was ever added to pending is in
\* processed.  (pc = "crashed": a walk ended neither normally nor by timeout.)
C10_CrawlTermination ==
  /\ <>(pc \in {"done", "crashed"})
  /\ [](pc = "done" => (pending = {} /\ added \subseteq processed))

\* the crawl stopped after a walk that timed out and a file found by
\* resolving a reference
C10_Witness ==
  /\ pc = "done"
  /\ fired > 0
  /\ "lib.py" \in processed

\* the last path next() returned: the file of the iteration just made
LastPopped == popped[Len(popped)]

\* C11 (timeout isolation): whenever the alarm fires during the walk of a
\* file, at whatever point, the iteration ends with the crawl going on (the
\* run is not stopped), what was in the node stream is still there, and the
\* file is in processed.
C11_TimeoutIsolation ==
  [][fired' # fired
       => /\ pc' = "crawl"
          /\ SubSeq(nodes', 1, Len(nodes)) = nodes
          /\ LastPopped' \in processed']_vars

\* the alarm interrupted the walk of a file after a Definition record of that
\* file was flushed, and the crawl went on
C11_Witness ==
  /\ pc = "crawl"
  /\ \E p \in DOMAIN outcome :
       /\ outcome[p] = "TimeoutError"
       /\ \E i \in DOMAIN NodeRecords :
            NodeRecords[i].path = p /\ NodeRecords[i].kind = "Definition"

\* C12 (offset-error isolation): when get_offset fails during the walk of a
\* file, without the alarm having fired, only that walk is aborted: the
\* iteration ends with the crawl going on.
C12_OffsetErrorIsolation ==
  [][(popped' # popped /\ fired' = fired /\ outcome'[LastPopped'] = "KeyError")
       => pc' = "crawl"]_vars

\* the walk of a file ended in a failed offset resolution that no alarm caused
C12_Witness ==
  /\ fired = 0
  /\ \E p \in DOMAIN outcome : outcome[p] = "KeyError"

\* the number of lines of a readable file: len(code.splitlines())
LineCount(p) == Cardinality(line_ends(fs[resolve(p)].code))

\* C13 (offset resolver range): for a file with n lines, get_offset(path,
\* line, column) returns offsets[line - 1] + column for 1 <= line <= n and
\* fails with an offset error for every line outside that range.
C13_ResolverRange ==
  (answer.call = "get_offset" /\ resolve(answer.key[2]) \in DOMAIN fs) =>
    IF 1 <= answer.line /\ answer.line <= LineCount(answer.key[2])
    THEN /\ answer.exc = NONE
         /\ answer.off = scan_line_offsets(fs[resolve(answer.key[2])].code)[answer.line]
                           + answer.col
    ELSE answer.exc = "KeyError"

\* the resolver was asked for a line beyond the last line of a readable file
C13_Witness ==
  /\ answer.call = "get_offset"
  /\ resolve(answer.key[2]) \in DOMAIN fs
  /\ answer.line > LineCount(answer.key[2])

\* the tokens of a record that a full (non-elided) rendering appended for the
\* value of a leaf
FullValues(rec) ==
  {i \in DOMAIN rec.tokens : rec.tokens[i].part = "value" /\ rec.tokens[i].el = <<>>}

RECURSIVE LeafPositions(_)
\* the positions of the leaves of a tree that the walk renders: all but the
\* end marker
LeafPositions(tree) ==
  IF tree.k = "Leaf"
  THEN IF IsEndMarker(tree) THEN {} ELSE {<<tree.line, tree.column>>}
  ELSE UNION {LeafPositions(tree.children[i]) : i \in 1..Len(tree.children)}

\* the positions of the leaves whose value a full rendering appended to a
\* record of file p
FullPositions(p) ==
  UNION {{NodeRecords[r].tokens[i].pos : i \in FullValues(NodeRecords[r])} :
           r \in {q \in DOMAIN NodeRecords : NodeRecords[q].path = p}}

\* C14 (resolution failure is not fatal): whatever the resolver answers for
\* a leaf (a target, no target, a target without a location, an exception
\* other than the timeout), the walk goes on to its end, every leaf has its
\* token, a full rendering appends the token of a leaf once to its Node, and
\* a token the resolver was asked about has no href when no concrete target
\* was obtained.
C14_ResolutionNotFatal ==
  /\ \A p \in DOMAIN outcome :
       fs[p].script.name.r \in {"none", "raise", "noloc"} => outcome[p] = "ok"
  /\ \A p \in Walked : LeafPositions(fs[p].tree) \subseteq FullPositions(p)
  /\ \A r \in DOMAIN NodeRecords : \A i \in FullValues(NodeRecords[r]) :
       /\ \A j \in FullValues(NodeRecords[r]) :
            NodeRecords[r].tokens[j].pos = NodeRecords[r].tokens[i].pos => j = i
       /\ (/\ ~NodeRecords[r].tokens[i].forced
           /\ \/ NodeRecords[r].tokens[i].cls # "Name"
              \/ fs[NodeRecords[r].path].script.name.r # "loc")
            => NodeRecords[r].tokens[i].href = NoHref

\* a file whose resolver raises for every name was walked to its end, and a
\* Name token of it, written without a forced href, is in a record
C14_Witness ==
  \E p \in Walked :
    /\ fs[p].script.name.r = "raise"
    /\ \E r \in DOMAIN NodeRecords : \E i \in FullValues(NodeRecords[r]) :
         /\ NodeRecords[r].path = p
         /\ NodeRecords[r].tokens[i].cls = "Name"
         /\ ~NodeRecords[r].tokens[i].forced

\* C15 (fail-fast validation): append_token with an unknown token type,
\* begin_node with an unknown node kind and UimSearchIndexWriter.append with
\* an unknown entry kind raise a validation error and change nothing: no
\* token is added, the running offset and the calculated line keep their
\* values, nothing is written to a file object or to a stream.
C15_FailFast ==
  [][(calls' # calls /\ answer'.kind = Bogus)
       => /\ answer'.exc = "ValueError"
          /\ writers' = writers
          /\ <<nodes', nodes_buf', search', search_buf'>>
               = <<nodes, nodes_buf, search, search_buf>>]_vars

\* append_token was refused on a writer that holds a token
C15_Witness ==
  /\ answer.call = "append_token"
  /\ answer.kind = Bogus
  /\ \E w \in DOMAIN writers : writers[w].tokens # <<>>

\* a stream of complete length-prefixed records: every length prefix is
\* followed by its record
WellFramed(stream) ==
  /\ Len(stream) % 2 = 0
  /\ \A i \in DOMAIN stream : stream[i].f = IF i % 2 = 1 THEN "len" ELSE "rec"

\* C16 (record atomicity): in every reachable state, also after a failure or
\* an alarm that interrupts write_node or UimSearchIndexWriter.append, each
\* output stream on disk is a sequence of complete length-prefixed records.
C16_RecordAtomicity == WellFramed(nodes) /\ WellFramed(search)

\* the alarm fired inside write_node or UimSearchIndexWriter.append
C16_Witness ==
  /\ fired > 0
  /\ \E p \in DOMAIN outcome : outcome[p] = "ValueError"

\* the entries of the search stream, in the order written
SearchRecords ==
  [i \in 1..Len(SelectSeq(search, IsRecord)) |-> SelectSeq(search, IsRecord)[i].rec]

RECURSIVE Units(_)
\* the definable units of a tree: the decorated nodes, and the classes,
\* functions and lambdas that a decorated node does not directly wrap
Units(tree) ==
  IF tree.k = "Leaf" THEN {}
  ELSE (IF IsUnit(tree) THEN {tree} ELSE {})
         \cup UNION {IF IsDecorated(tree) /\ IsClassOrFunc(tree.children[i])
                     THEN UNION {Units(tree.children[i].children[j]) :
                                   j \in 1..Len(tree.children[i].children)}
                     ELSE Units(tree.children[i]) : i \in 1..Len(tree.children)}

RECURSIVE UnitName(_)
\* the name of a unit: of the innermost definition it wraps; <<>> when that
\* definition has no name token (a lambda)
UnitName(tree) ==
  IF IsDecorated(tree) \/ tree.type = "async_funcdef"
  THEN UnitName(tree.children[Len(tree.children)])
  ELSE IF has_name(tree) THEN tree.children[2].value ELSE <<>>

\* the start location of a unit of file p, as an href
StartHref(p, tree) ==
  [path |-> p,
   offset |-> py_index(scan_line_offsets(fs[p].code), tree.line - 1) + tree.column]

\* the entries of the search stream for a unit of file p
EntriesOf(p, tree) ==
  {i \in DOMAIN SearchRecords : SearchRecords[i].href = StartHref(p, tree)}

\* C17 (search entries): in the walk of a file each definable unit that has a
\* name token causes exactly one search entry, of kind symbol, keyed by the
\* name (of the innermost wrapped unit, for a decorated unit), with the
\* unit's start location as href; a unit without a name token causes none.
C17_SearchEntries ==
  \A p \in Walked : \A t \in Units(fs[p].tree) :
    IF UnitName(t) # <<>>
    THEN /\ Cardinality(EntriesOf(p, t)) = 1
         /\ \A i \in EntriesOf(p, t) :
              /\ SearchRecords[i].kind = "IISymbol"
              /\ SearchRecords[i].key = UnitName(t)
    ELSE EntriesOf(p, t) = {}

\* a walked file with a decorated function and its search entry
C17_Witness ==
  \E p \in Walked : \E t \in Units(fs[p].tree) :
    IsDecorated(t) /\ UnitName(t) # <<>> /\ EntriesOf(p, t) # {}

\* the bytes of the texts of the first n tokens of a list
BytesOf(tokens, n) == Concat([j \in 1..n |-> encode(tokens[j].text)])

\* C18 (token offsets): after any sequence of successful append_token calls
\* on a Node the first token has offset 0, the offset of each token is the
\* sum of the UTF-8 byte lengths of the texts of the tokens before it, and
\* the text set at flush is the concatenation of the token texts, as long as
\* the writer's running offset.
C18_TokenOffsets ==
  /\ \A w \in DOMAIN writers :
       /\ \A i \in DOMAIN writers[w].tokens :
            writers[w].tokens[i].offset = Len(BytesOf(writers[w].tokens, i - 1))
       /\ writers[w].offset = Len(BytesOf(writers[w].tokens, Len(writers[w].tokens)))
  /\ \A r \in DOMAIN NodeRecords :
       /\ NodeRecords[r].text = BytesOf(NodeRecords[r].tokens, Len(NodeRecords[r].tokens))
       /\ NodeRecords[r].tokens # <<>> =>
            Len(NodeRecords[r].text)
              = NodeRecords[r].tokens[Len(NodeRecords[r].tokens)].offset
                  + Len(encode(NodeRecords[r].tokens[Len(NodeRecords[r].tokens)].text))

\* a Node with three tokens, one of them with a three-byte character, was
\* flushed
C18_Witness ==
  \E r \in DOMAIN NodeRecords :
    /\ Len(NodeRecords[r].tokens) = 3
    /\ \E i \in 1..2 : NodeRecords[r].tokens[i].text = <<" ", Ellipsis>>

\* C19 (explicit lines are rare): in every Node of a file walk a token has an
\* explicit line only if it is the first token of the Node or the first token
\* after an elided rendering (the token after an ellipsis marker).
C19_ExplicitLinesRare ==
  \A r \in DOMAIN NodeRecords : \A i \in DOMAIN NodeRecords[r].tokens :
    NodeRecords[r].tokens[i].real_line # NoLine
      => \/ i = 1
         \/ NodeRecords[r].tokens[i - 1].part = "mark"

\* the token after an ellipsis marker has an explicit line
C19_Witness ==
  \E r \in DOMAIN NodeRecords : \E i \in DOMAIN NodeRecords[r].tokens :
    /\ i > 1
    /\ NodeRecords[r].tokens[i - 1].part = "mark"
    /\ NodeRecords[r].tokens[i].real_line # NoLine

\* C20 (best-effort flush on timeout): when TimeoutError ends the walk of a
\* file, every Node that was open at that moment, the root SourceFile Node
\* and each Definition Node being filled, is in the node stream with the
\* tokens it had.
C20_BestEffortFlush ==
  \A i \in DOMAIN cut : \E r \in DOMAIN NodeRecords : NodeRecords[r] = cut[i]

\* the alarm ended a walk while a Definition Node holding tokens was open
C20_Witness ==
  \E i \in DOMAIN cut : cut[i].kind = "Definition" /\ cut[i].tokens # <<>>

\* the text of a file before the position (line, column): the lines above
\* `line` with their newlines, then `column` characters
TextBefore(code, line, column) ==
  SubSeq(code, 1,
         (IF line = 1 THEN 0
          ELSE CHOOSE i \in 1..Len(code) :
                 code[i] = NL /\ count_nl(SubSeq(code, 1, i)) = line - 1)
         + column)

\* the number of UTF-8 encoded bytes of a file before the position
BytesBefore(code, line, column) == Len(encode(TextBefore(code, line, column)))

\* an answer of the resolver for a line the file has
InFile(l) == resolve(l.path) \in DOMAIN fs /\ l.line \in 1..LineCount(l.path)

\* C21 (offsets are byte offsets): the offset the resolver gives for a
\* position of a file, which becomes the start.offset of a Definition Node
\* or the offset of an href, is the number of UTF-8 encoded bytes that
\* precede the position in the file, also when the file holds multi-byte
\* characters.
C21_ByteOffsets ==
  /\ \A l \in lookups :
       InFile(l) => l.off = BytesBefore(fs[resolve(l.path)].code, l.line, l.col)
  /\ \A r \in DOMAIN NodeRecords :
       (NodeRecords[r].kind = "Definition"
          /\ resolve(NodeRecords[r].path) \in DOMAIN fs)
       => NodeRecords[r].start.offset =
            BytesBefore(fs[resolve(NodeRecords[r].path)].code,
                        NodeRecords[r].start.line, NodeRecords[r].start.column)

\* a Definition Node was written that starts after a two-byte character of
\* its file
C21_Witness ==
  \E r \in DOMAIN NodeRecords :
    /\ NodeRecords[r].kind = "Definition"
    /\ resolve(NodeRecords[r].path) \in DOMAIN fs
    /\ \E i \in 1..Len(TextBefore(fs[resolve(NodeRecords[r].path)].code,
                                  NodeRecords[r].start.line,
                                  NodeRecords[r].start.column)) :
         fs[resolve(NodeRecords[r].path)].code[i] = EAcute

\* the Definition records of the node stream for a unit of file p: those
\* that start where the unit starts
RecordsOf(p, tree) ==
  {r \in DOMAIN NodeRecords :
     /\ NodeRecords[r].kind = "Definition"
     /\ NodeRecords[r].path = p
     /\ NodeRecords[r].start.line = tree.line
     /\ NodeRecords[r].start.column = tree.column}

\* C22 (exactly one record per definition): in the walk of a file each
\* definable unit of the syntax tree causes exactly one Definition record in
\* the node stream, although its header and decorators are walked a second
\* time for the elided rendering, and also when the unit lies inside another
\* unit's header or decorator.
C22_OneRecordPerUnit ==
  \A p \in Walked : \A t \in Units(fs[p].tree) : Cardinality(RecordsOf(p, t)) = 1

\* a walked file with a lambda among the parameters of a function, and a
\* record written for the lambda
C22_Witness ==
  \E p \in Walked : \E t, u \in Units(fs[p].tree) :
    /\ t.type = "lambdef"
    /\ u.type = "funcdef"
    /\ t \in Subtrees(u.children[3])
    /\ RecordsOf(p, t) # {}
    /\ RecordsOf(p, u) # {}
====
